---- MODULE Spec2Model ----
(***************************************************************************)
(* The documentation site of narayann7/flutter-interview-prep as data and  *)
(* as the evaluation of its modules.  The repository holds three kinds of  *)
(* artefact: the site configuration (docusaurus.config.ts and two further  *)
(* configuration files, part_004 and part_005), the navigation descriptor  *)
(* (sidebars.ts and part_003) and the Markdown corpus.  The only code that *)
(* runs is the top-level code of the TypeScript modules: links.ts, the     *)
(* configuration (which reads process.env.NODE_ENV and the clock) and the  *)
(* sidebars.  The state below is what a build has evaluated so far.        *)
(*                                                                         *)
(* JavaScript values are modelled as tagged records [t, v] so that a       *)
(* string, an array and an object literal can be told apart and an object  *)
(* literal keeps its entries as authored (a sequence of <<key, value>>).   *)
(* Characters outside Latin-1 are written <U+XXXX>.                        *)
(***************************************************************************)
EXTENDS Integers, Sequences, FiniteSets, TLC

\* ----------------------------------------------------------------------
\* Bounds of the model: the calendar years a build may run in.
YearMin == 2024
YearMax == 2025

\* ----------------------------------------------------------------------
\* JavaScript values.
S(x) == [t |-> "string", v |-> x]
B(x) == [t |-> "boolean", v |-> x]
Num(x) == [t |-> "number", v |-> x]
O(entries) == [t |-> "object", v |-> entries]
A(elems) == [t |-> "array", v |-> elems]
Fn(text) == [t |-> "function", v |-> text]
Ext(name) == [t |-> "external", v |-> name]
Undefined == [t |-> "undefined", v |-> "undefined"]

Max(set) == CHOOSE m \in set : \A n \in set : n <= m

\* o.k of an object literal: a later entry of the same key overwrites an
\* earlier one; a key that is absent reads as undefined.
Get(o, k) ==
    LET idx == {i \in 1..Len(o.v) : o.v[i][1] = k}
    IN  IF idx = {} THEN Undefined ELSE o.v[Max(idx)][2]

Has(o, k) == \E i \in 1..Len(o.v) : o.v[i][1] = k

\* `${a}${b}` and a + b on strings.
Concat(a, b) == S(a.v \o b.v)

\* Every object literal written inside a value, the value itself included,
\* in source order.
RECURSIVE ObjectsIn(_)
RECURSIVE ObjectsInSeq(_)
ObjectsIn(val) ==
    IF val.t = "object"
    THEN <<val>> \o ObjectsInSeq([i \in 1..Len(val.v) |-> val.v[i][2]])
    ELSE IF val.t = "array" THEN ObjectsInSeq(val.v)
    ELSE <<>>
ObjectsInSeq(vals) ==
    IF vals = <<>> THEN <<>>
    ELSE ObjectsIn(Head(vals)) \o ObjectsInSeq(Tail(vals))

\* ----------------------------------------------------------------------
\* src/src/utils/links.ts
linkedinLink == S("https://www.linkedin.com/in/narayann/")
githubLink == S("https://github.com/narayann7")
gmailLink == S("mailto:social@narayann.dev")
twitterLink == S("https://twitter.com/narayanndev")
stackoverflowLink == S("https://stackoverflow.com/users/14385914/narayann")
portfolioLink == S("https://narayann.dev")
\* hostedCoreURL written with a slash at its end, as linkedinLink is.
hostedCoreURL_trailingSlash == S("https://flutterprep.narayann.dev/")

hostedCoreURL == S("https://flutterprep.narayann.dev")

\* The links object with the values of githubLink and gmailLink exchanged.
links_swapped ==
    O(<< <<"linkedinLink", linkedinLink>>,
         <<"githubLink", gmailLink>>,
         <<"gmailLink", githubLink>>,
         <<"twitterLink", twitterLink>>,
         <<"stackoverflowLink", stackoverflowLink>>,
         <<"portfolioLink", portfolioLink>>,
         <<"hostedCoreURL", hostedCoreURL>> >>)

links ==
    O(<< <<"linkedinLink", linkedinLink>>,
         <<"githubLink", githubLink>>,
         <<"gmailLink", gmailLink>>,
         <<"twitterLink", twitterLink>>,
         <<"stackoverflowLink", stackoverflowLink>>,
         <<"portfolioLink", portfolioLink>>,
         <<"hostedCoreURL", hostedCoreURL>> >>)

\* ----------------------------------------------------------------------
\* The environment of a build: process.env.NODE_ENV and the clock.
Unset == "<unset>"
NodeEnvValues == {"development", "production", Unset}
Years == YearMin..YearMax

\* NODE_ENV compared with 'production' the wrong way round.
isDev_notProduction(nodeEnvValue) == nodeEnvValue # "production"

\* process.env.NODE_ENV === 'development'
isDev(nodeEnvValue) == nodeEnvValue = "development"

\* The year written with its last two digits only.
YearText_twoDigit(y) == S(ToString(y % 100))

\* new Date().getFullYear() inside a template literal
YearText(y) == S(ToString(y))

\* ----------------------------------------------------------------------
\* src/docusaurus.config.ts
config(nodeEnvValue, y) ==
    O(<<
      <<"title", S("Flutter Interview Prep")>>,
      <<"tagline", S("Curated Flutter interview questions and answers.")>>,
      <<"favicon", S("img/favicon.ico")>>,
      <<"future", O(<< <<"v4", B(TRUE)>> >>)>>,
      <<"url", S("https://narayann.dev")>>,
      <<"baseUrl", IF isDev(nodeEnvValue) THEN S("/")
                   ELSE S("/flutter-interview-prep/")>>,
      <<"organizationName", S("narayann7")>>,
      <<"projectName", S("flutter-interview-prep")>>,
      <<"deploymentBranch", S("gh-pages")>>,
      <<"trailingSlash", B(FALSE)>>,
      <<"onBrokenLinks", S("warn")>>,
      <<"onBrokenMarkdownLinks", S("warn")>>,
      <<"i18n", O(<< <<"defaultLocale", S("en")>>,
                     <<"locales", A(<<S("en")>>)>> >>)>>,
      <<"presets", A(<< A(<<
          S("classic"),
          O(<<
            <<"docs", O(<<
                <<"sidebarPath", S("./sidebars.ts")>>,
                <<"editUrl",
                  S("https://github.com/narayann7/flutter-interview-prep/edit/main/")>> >>)>>,
            <<"blog", B(FALSE)>>,
            <<"theme", O(<< <<"customCss", S("./src/css/custom.css")>> >>)>>,
            <<"sitemap", O(<<
                <<"changefreq", S("weekly")>>,
                <<"priority", Num("0.5")>>,
                <<"filename", S("sitemap.xml")>> >>)>>
          >>) >>) >>)>>,
      <<"themeConfig", O(<<
          <<"image", S("img/social-card.jpg")>>,
          <<"colorMode", O(<< <<"respectPrefersColorScheme", B(TRUE)>> >>)>>,
          <<"navbar", O(<<
              <<"title", S("Flutter Interview Prep")>>,
              <<"logo", O(<< <<"alt", S("Flutter Interview Prep Logo")>>,
                             <<"src", S("img/logo.svg")>> >>)>>,
              <<"items", A(<<
                  O(<< <<"href", S("https://github.com/narayann7/flutter-interview-prep")>>,
                       <<"label", S("GitHub")>>,
                       <<"position", S("right")>> >>) >>)>> >>)>>,
          <<"footer", O(<<
              <<"style", S("dark")>>,
              <<"links", A(<<
                  O(<< <<"title", S("Docs")>>,
                       <<"items", A(<<
                           O(<< <<"label", S("Start")>>,
                                <<"to", S("/docs/intro")>> >>) >>)>> >>),
                  O(<< <<"title", S("Community")>>,
                       <<"items", A(<<
                           O(<< <<"label", S("Stack Overflow")>>,
                                <<"href", S("https://stackoverflow.com/questions/tagged/flutter")>> >>),
                           O(<< <<"label", S("Twitter")>>,
                                <<"href", S("https://x.com/docusaurus")>> >>) >>)>> >>) >>)>>,
              <<"copyright",
                Concat(Concat(S("Copyright © "), YearText(y)),
                       S(" Narayann. Built with Docusaurus."))>> >>)>>,
          <<"prism", O(<< <<"theme", Ext("prismThemes.github")>>,
                          <<"darkTheme", Ext("prismThemes.dracula")>> >>)>>,
          <<"metadata", A(<<
              O(<< <<"name", S("description")>>,
                   <<"content",
                     S("Prepare for your Flutter interviews with curated questions and answers.")>> >>),
              O(<< <<"name", S("keywords")>>,
                   <<"content",
                     S("Flutter, Dart, interview questions, SDE, coding prep")>> >>) >>)>>
        >>)>>
    >>)

\* ----------------------------------------------------------------------
\* src/unnamed/part_004: the configuration that imports the links module.
\* lnk is the default export of ./src/utils/links.
config_part_004(lnk) ==
    O(<<
      <<"title", S("Flutter Interview Prep")>>,
      <<"tagline", S("Curated Flutter interview questions and answers.")>>,
      <<"favicon", S("img/flutter/icon_flutter.png")>>,
      <<"future", O(<< <<"v4", B(TRUE)>> >>)>>,
      <<"url", Get(lnk, "hostedCoreURL")>>,
      <<"baseUrl", S("/")>>,
      <<"organizationName", S("narayann7")>>,
      <<"projectName", S("flutter-interview-prep")>>,
      <<"deploymentBranch", S("main")>>,
      <<"trailingSlash", B(FALSE)>>,
      <<"onBrokenLinks", S("warn")>>,
      <<"onBrokenMarkdownLinks", S("warn")>>,
      <<"i18n", O(<< <<"defaultLocale", S("en")>>,
                     <<"locales", A(<<S("en")>>)>> >>)>>,
      <<"presets", A(<< A(<<
          S("classic"),
          O(<<
            <<"docs", O(<<
                <<"sidebarPath", S("./sidebars.ts")>>,
                <<"editUrl",
                  S("https://github.com/narayann7/flutter-interview-prep/edit/main/")>> >>)>>,
            <<"blog", B(FALSE)>>,
            <<"theme", O(<< <<"customCss", S("./src/css/custom.css")>> >>)>>,
            <<"sitemap", O(<<
                <<"changefreq", S("weekly")>>,
                <<"priority", Num("0.5")>>,
                <<"filename", S("sitemap.xml")>> >>)>>
          >>) >>) >>)>>,
      <<"themeConfig", O(<<
          <<"image", S("img/social-card.jpg")>>,
          <<"colorMode", O(<< <<"respectPrefersColorScheme", B(TRUE)>>,
                              <<"defaultMode", S("dark")>> >>)>>,
          <<"navbar", O(<<
              <<"title", S("Flutter Interview Prep")>>,
              <<"logo", O(<< <<"alt", S("Flutter Interview Prep Logo")>>,
                             <<"src", S("img/flutter/icon_flutter.svg")>> >>)>>,
              <<"items", A(<<
                  O(<< <<"href", Concat(Get(lnk, "githubLink"),
                                        S("/flutter-interview-prep"))>>,
                       <<"label", S("GitHub")>>,
                       <<"position", S("right")>> >>),
                  O(<< <<"href", Get(lnk, "gmailLink")>>,
                       <<"label", S("Contact")>>,
                       <<"position", S("right")>> >>) >>)>> >>)>>,
          <<"prism", O(<< <<"theme", Ext("prismThemes.oceanicNext")>>,
                          <<"darkTheme", Ext("prismThemes.oceanicNext")>>,
                          <<"additionalLanguages",
                            A(<<S("dart"), S("java"), S("graphql")>>)>> >>)>>,
          <<"metadata", A(<<
              O(<< <<"name", S("description")>>,
                   <<"content",
                     S("Prepare for your Flutter interviews with curated questions, answers, and topic guides. Built for SDE2 aspirants and Flutter developers.")>> >>),
              O(<< <<"name", S("keywords")>>,
                   <<"content",
                     S("Flutter, Dart, interview questions, SDE, coding prep, DSA, software developer, mobile app, technical interview, flutter web")>> >>),
              O(<< <<"name", S("author")>>, <<"content", S("Narayann Dev")>> >>),
              O(<< <<"name", S("robots")>>, <<"content", S("index, follow")>> >>),
              O(<< <<"property", S("og:title")>>,
                   <<"content", S("Flutter Interview Prep Guide")>> >>),
              O(<< <<"property", S("og:description")>>,
                   <<"content",
                     S("Curated Flutter interview questions and detailed answers for aspiring SDE2 and mobile developers.")>> >>),
              O(<< <<"property", S("og:type")>>, <<"content", S("website")>> >>),
              O(<< <<"property", S("og:url")>>,
                   <<"content", Get(lnk, "hostedCoreURL")>> >>) >>)>>
        >>)>>
    >>)

\* ----------------------------------------------------------------------
\* src/unnamed/part_005: the configuration for GitHub Pages.
coreDomainUrl == S("https://narayann.dev")
baseGitHubUrl == S("https://github.com/narayann7/")

\* ({ versionDocsDirPath, docPath }) => `${baseGitHubUrl}flutter-interview-prep/...`
editUrl(versionDocsDirPath, docPath) ==
    Concat(Concat(Concat(Concat(baseGitHubUrl, S("flutter-interview-prep/blob/main/")),
                         versionDocsDirPath), S("/")), docPath)

config_part_005(y) ==
    O(<<
      <<"title", S("Flutter Interview Prep")>>,
      <<"tagline",
        S("Prepare for your Flutter interviews with curated questions and answers.")>>,
      <<"favicon", S("img/favicon.ico")>>,
      <<"future", O(<< <<"v4", B(TRUE)>> >>)>>,
      <<"url", S("https://narayann7.github.io")>>,
      <<"baseUrl", S("/flutter-interview-prep/")>>,
      <<"organizationName", S("narayann7")>>,
      <<"projectName", S("flutter-interview-prep")>>,
      <<"onBrokenLinks", S("throw")>>,
      <<"i18n", O(<< <<"defaultLocale", S("en")>>,
                     <<"locales", A(<<S("en")>>)>> >>)>>,
      <<"presets", A(<< A(<<
          S("classic"),
          O(<<
            <<"docs", O(<<
                <<"sidebarPath", S("./sidebars.ts")>>,
                <<"editUrl",
                  Fn("editUrl")>> >>)>>,
            <<"theme", O(<< <<"customCss", S("./src/css/custom.css")>> >>)>>
          >>) >>) >>)>>,
      <<"themeConfig", O(<<
          <<"image", S("img/docusaurus-social-card.jpg")>>,
          <<"colorMode", O(<< <<"respectPrefersColorScheme", B(TRUE)>> >>)>>,
          <<"navbar", O(<<
              <<"title", S("Flutter Interview Prep")>>,
              <<"logo", O(<< <<"alt", S("Flutter Interview Prep Logo")>>,
                             <<"src", S("img/logo.svg")>> >>)>>,
              <<"items", A(<<
                  O(<< <<"href", Concat(baseGitHubUrl, S("flutter-interview-prep"))>>,
                       <<"label", S("GitHub")>>,
                       <<"position", S("right")>> >>) >>)>> >>)>>,
          <<"footer", O(<<
              <<"style", S("dark")>>,
              <<"links", A(<<
                  O(<< <<"title", S("Docs")>>,
                       <<"items", A(<<
                           O(<< <<"label", S("Intro")>>,
                                <<"to", S("/docs/intro")>> >>) >>)>> >>),
                  O(<< <<"title", S("Community")>>,
                       <<"items", A(<<
                           O(<< <<"label", S("Stack Overflow")>>,
                                <<"href", S("https://stackoverflow.com/questions/tagged/docusaurus")>> >>),
                           O(<< <<"label", S("Discord")>>,
                                <<"href", S("https://discordapp.com/invite/docusaurus")>> >>),
                           O(<< <<"label", S("X")>>,
                                <<"href", S("https://x.com/docusaurus")>> >>) >>)>> >>) >>)>>,
              <<"copyright",
                Concat(Concat(S("Copyright © "), YearText(y)),
                       S(" Narayan N. Built with Docusaurus."))>> >>)>>,
          <<"prism", O(<< <<"theme", Ext("prismThemes.github")>>,
                          <<"darkTheme", Ext("prismThemes.dracula")>> >>)>>
        >>)>>
    >>)

\* ----------------------------------------------------------------------
\* src/sidebars.ts
sidebars ==
    O(<< <<"tutorialSidebar", A(<<
        O(<< <<"type", S("doc")>>,
             <<"id", S("welcome")>>,
             <<"label", S("Welcome")>> >>),
        O(<< <<"type", S("category")>>,
             <<"label", S("Fundamentals")>>,
             <<"items", A(<<
                 S("fundamentals/widgets_overview"),
                 S("fundamentals/stateless_vs_stateful"),
                 S("fundamentals/buildcontext_and_lifecycle"),
                 S("fundamentals/keys_in_flutter"),
                 S("fundamentals/container_const_explained") >>)>> >>)
      >>)>> >>)

\* src/unnamed/part_003: the navigation descriptor with all nine categories.
sidebars_part_003 ==
    O(<< <<"tutorialSidebar", A(<<
        O(<< <<"type", S("doc")>>,
             <<"id", S("welcome")>>,
             <<"label", S("Welcome")>> >>),
        O(<< <<"type", S("category")>>,
             <<"label", S("Fundamentals")>>,
             <<"items", A(<<
                 S("fundamentals/widgets_overview"),
                 S("fundamentals/stateless_vs_stateful"),
                 S("fundamentals/buildcontext_and_lifecycle"),
                 S("fundamentals/keys_in_flutter"),
                 S("fundamentals/container_const_explained") >>)>> >>),
        O(<< <<"type", S("category")>>,
             <<"label", S("Layouts & Rendering")>>,
             <<"items", A(<<
                 S("layouts_and_rendering/repaint_boundary"),
                 S("layouts_and_rendering/flexible_and_flex"),
                 S("layouts_and_rendering/custom_paint_and_canvas"),
                 S("layouts_and_rendering/performance_optimization_tips") >>)>> >>),
        O(<< <<"type", S("category")>>,
             <<"label", S("Dart Language Concepts")>>,
             <<"items", A(<<
                 S("dart_language_concepts/mixins_in_dart"),
                 S("dart_language_concepts/iterables_vs_lists"),
                 S("dart_language_concepts/async_asyncstar_syncstar"),
                 S("dart_language_concepts/throttle_vs_debounce") >>)>> >>),
        O(<< <<"type", S("category")>>,
             <<"label", S("Architecture & Engine")>>,
             <<"items", A(<<
                 S("architecture_and_engine/flutter_engine_internals"),
                 S("architecture_and_engine/tree_shaking"),
                 S("architecture_and_engine/build_modes"),
                 S("architecture_and_engine/state_in_flutter"),
                 S("architecture_and_engine/flutter_trees_and_rendering_pipeline") >>)>> >>),
        O(<< <<"type", S("category")>>,
             <<"label", S("Packages & Plugins")>>,
             <<"items", A(<<
                 S("packages_and_plugins/difference_packages_plugins"),
                 S("packages_and_plugins/dependency_management_best_practices") >>)>> >>),
        O(<< <<"type", S("category")>>,
             <<"label", S("State Management")>>,
             <<"items", A(<<
                 S("state_management/stateful_widget_lifecycle"),
                 S("state_management/provider_and_inheritedwidget"),
                 S("state_management/bloc_and_riverpod_intro"),
                 S("state_management/comparison_of_state_management") >>)>> >>),
        O(<< <<"type", S("category")>>,
             <<"label", S("Streams & Async Programming")>>,
             <<"items", A(<<
                 S("streams_and_async/streams_basics"),
                 S("streams_and_async/stream_transformers"),
                 S("streams_and_async/streambuilder_widget"),
                 S("streams_and_async/best_practices_for_streams") >>)>> >>),
        O(<< <<"type", S("category")>>,
             <<"label", S("Links & Navigation")>>,
             <<"items", A(<<
                 S("links_and_navigation/deep_linking"),
                 S("links_and_navigation/dynamic_linking"),
                 S("links_and_navigation/navigation_and_routes") >>)>> >>),
        O(<< <<"type", S("category")>>,
             <<"label", S("Advanced Topics")>>,
             <<"items", A(<<
                 S("advanced_topics/custom_widget_examples"),
                 S("advanced_topics/animation_with_custompaint"),
                 S("advanced_topics/app_lifecycle_states"),
                 S("advanced_topics/flutter_performance_insights") >>)>> >>)
      >>)>> >>)

\* ----------------------------------------------------------------------
\* The Markdown corpus.  A file is its path below docs/ (directory and file
\* name without extension), its lines and the links written in its prose.
\* Of the lines only the kinds matter: a fence (a line that is ---), a
\* field (key: value) and text (a run of any other lines, given by its
\* first line).  The directory and name of the three files under
\* src/unnamed are not known.
Fence(ln) == [ln |-> ln, kind |-> "fence", key |-> "", value |-> ""]
Field(ln, key, value) == [ln |-> ln, kind |-> "field", key |-> key, value |-> value]
Text(ln) == [ln |-> ln, kind |-> "text", key |-> "", value |-> ""]
\* A link: an inline Markdown link [text](target) or a wiki embed
\* ![[target]]; the target is split into its prefix (# for an anchor, the
\* scheme and // for a URL, empty for a path), the rest, and the file
\* extension of a path.
Link(ln, kind, prefix, rest, ext) ==
    [ln |-> ln, kind |-> kind, prefix |-> prefix, rest |-> rest, ext |-> ext]
UnknownDir == "<unknown directory>"

\* src/docs/welcome.md
welcome_md ==
    [dir |-> "",
     name |-> "welcome",
     lines |->
       << Fence(1), Field(2, "id", "intro"),
          Field(3, "title", "<U+1F680> Welcome"),
          Field(4, "sidebar_position", "1"), Fence(5), Text(6), Fence(13),
          Text(14), Fence(27), Text(28), Fence(38), Text(39), Fence(56),
          Field(57, "id", "welcome"), Field(58, "title", "Welcome"),
          Field(59, "sidebar_position", "1"), Fence(60), Text(61), Fence(68),
          Text(69), Fence(82), Text(83), Fence(93), Text(94) >>,
     links |->
       <<>>]

\* keypoints.md with a link to a sibling document added to its prose.
keypoints_md_crossLink ==
    [dir |-> "cs/nextjs",
     name |-> "keypoints",
     lines |->
       << Text(1) >>,
     links |->
       << Link(9, "inline", "", "/docs/cs/backend/graphql", "") >>]

\* src/docs/cs/nextjs/keypoints.md
keypoints_md ==
    [dir |-> "cs/nextjs",
     name |-> "keypoints",
     lines |->
       << Text(1) >>,
     links |->
       <<>>]

\* src/docs/cs/mobile apps/android.md
android_md ==
    [dir |-> "cs/mobile apps",
     name |-> "android",
     lines |->
       << Text(1) >>,
     links |->
       <<>>]

\* src/docs/cs/backend/graphql.md
graphql_md ==
    [dir |-> "cs/backend",
     name |-> "graphql",
     lines |->
       << Text(1) >>,
     links |->
       <<>>]

\* src/docs/cs/system design/concepts/soild.md
soild_md ==
    [dir |-> "cs/system design/concepts",
     name |-> "soild",
     lines |->
       << Text(1), Fence(13), Text(14), Fence(27), Text(28), Fence(145),
          Text(146), Fence(295), Text(296), Fence(520), Text(521),
          Fence(830), Text(831), Fence(1090), Text(1091), Fence(1149),
          Text(1150) >>,
     links |->
       <<>>]

\* src/docs/cs/languages/java/String, StringBuffer and StringBuilder.md
String_StringBuffer_and_StringBuilder_md ==
    [dir |-> "cs/languages/java",
     name |-> "String, StringBuffer and StringBuilder",
     lines |->
       << Text(1), Fence(211),
          Field(212, "id", "flutter_trees_and_rendering_pipeline"),
          Field(213, "title", "Flutter Trees and Rendering Pipeline"),
          Field(214, "sidebar_label", "Flutter Trees and Rendering"),
          Field(215, "sidebar_position", "2"),
          Field(216, "tags", "[Advanced, Rendering, Architecture, Important]"),
          Field(217, "description", "A deep dive into Flutter's Widget, Element, Render, and Layer trees and how they interact within the rendering pipeline."),
          Field(218, "keywords", ""), Text(219), Fence(228), Text(229),
          Fence(251), Text(252), Fence(264), Text(265), Fence(295),
          Text(296), Fence(312), Text(313), Fence(341), Text(342),
          Fence(363), Text(364), Fence(374), Text(375), Fence(383),
          Text(384) >>,
     links |->
       << Link(1, "wiki", "", "Pasted image 20241019194047.png", "png") >>]

\* part_000 with the id of welcome.md copied into its front-matter.
part_000_idIntro ==
    [dir |-> UnknownDir,
     name |-> "part_000",
     lines |->
       << Fence(1),
          Field(2, "id", "intro"),
          Field(3, "title", "BuildContext and Lifecycle"),
          Field(4, "sidebar_label", "BuildContext and Lifecycle"),
          Field(5, "sidebar_position", "1"),
          Field(6, "tags", "[Intermediate, Widgets]"),
          Field(7, "description", "Explanation of BuildContext and the widget lifecycle in Flutter."),
          Field(8, "keywords", "[Flutter, BuildContext, Lifecycle]"),
          Fence(9), Text(10), Fence(11), Text(12), Fence(39), Text(40),
          Fence(75), Text(76) >>,
     links |->
       <<>>]

\* src/unnamed/part_000
part_000 ==
    [dir |-> UnknownDir,
     name |-> "part_000",
     lines |->
       << Fence(1),
          Field(2, "id", "buildcontext_and_lifecycle"),
          Field(3, "title", "BuildContext and Lifecycle"),
          Field(4, "sidebar_label", "BuildContext and Lifecycle"),
          Field(5, "sidebar_position", "1"),
          Field(6, "tags", "[Intermediate, Widgets]"),
          Field(7, "description", "Explanation of BuildContext and the widget lifecycle in Flutter."),
          Field(8, "keywords", "[Flutter, BuildContext, Lifecycle]"),
          Fence(9), Text(10), Fence(11), Text(12), Fence(39), Text(40),
          Fence(75), Text(76) >>,
     links |->
       <<>>]

\* src/unnamed/part_001
part_001 ==
    [dir |-> UnknownDir,
     name |-> "part_001",
     lines |->
       << Text(1) >>,
     links |->
       <<>>]

\* src/unnamed/part_002
part_002 ==
    [dir |-> UnknownDir,
     name |-> "part_002",
     lines |->
       << Text(1), Fence(198), Text(199) >>,
     links |->
       << Link(9, "inline", "#", "python-fundamentals", ""),
          Link(10, "inline", "#", "pythons-unique-features", ""),
          Link(11, "inline", "#", "advanced-python-concepts", ""),
          Link(12, "inline", "#", "modern-python-development", ""),
          Link(13, "inline", "#", "python-for-specific-domains", ""),
          Link(14, "inline", "#", "package--project-management", ""),
          Link(15, "inline", "#", "testing--quality-assurance", ""),
          Link(16, "inline", "#", "performance-optimization", ""),
          Link(17, "inline", "#", "python-ecosystem", ""),
          Link(18, "inline", "#", "recommended-learning-path", ""),
          Link(5083, "inline", "https://", "www.python.org/", ""),
          Link(5084, "inline", "https://", "docs.python.org/", ""),
          Link(5085, "inline", "https://", "pypi.org/", ""),
          Link(5086, "inline", "https://", "peps.python.org/", ""),
          Link(5087, "inline", "https://", "wiki.python.org/", ""),
          Link(5093, "inline", "https://", "stackoverflow.com/questions/tagged/python", ""),
          Link(5094, "inline", "https://", "www.reddit.com/r/Python/", ""),
          Link(5095, "inline", "https://", "pythondiscord.com/", ""),
          Link(5096, "inline", "https://", "pythondev.slack.com/", ""),
          Link(5097, "inline", "https://", "dev.to/t/python", ""),
          Link(5098, "inline", "https://", "www.pythonweekly.com/", ""),
          Link(5163, "inline", "https://", "docs.python.org/3/reference/", ""),
          Link(5164, "inline", "https://", "docs.python.org/3/library/", ""),
          Link(5165, "inline", "https://", "docs.python.org/3/howto/", ""),
          Link(5166, "inline", "https://", "docs.python.org/3/tutorial/", ""),
          Link(5174, "inline", "https://", "www.python.org/community/lists/", ""),
          Link(5550, "inline", "https://", "docs.python.org/3/tutorial/", ""),
          Link(5562, "inline", "https://", "docs.pytest.org/", ""),
          Link(5563, "inline", "https://", "packaging.python.org/", ""),
          Link(5570, "inline", "https://", "fastapi.tiangolo.com/", ""),
          Link(5571, "inline", "https://", "docs.djangoproject.com/", ""),
          Link(5576, "inline", "https://", "pandas.pydata.org/docs/", ""),
          Link(5585, "inline", "https://", "doc.qt.io/qtforpython/", ""),
          Link(5586, "inline", "https://", "tkdocs.com/", "") >>]

\* ----------------------------------------------------------------------
\* Reading a content file.
DocFiles ==
    {"docs/welcome.md", "docs/cs/nextjs/keypoints.md",
     "docs/cs/mobile apps/android.md", "docs/cs/backend/graphql.md",
     "docs/cs/system design/concepts/soild.md",
     "docs/cs/languages/java/String, StringBuffer and StringBuilder.md",
     "unnamed/part_000", "unnamed/part_001", "unnamed/part_002"}

Doc(file) ==
    CASE file = "docs/welcome.md" -> welcome_md
      [] file = "docs/cs/nextjs/keypoints.md" -> keypoints_md
      [] file = "docs/cs/mobile apps/android.md" -> android_md
      [] file = "docs/cs/backend/graphql.md" -> graphql_md
      [] file = "docs/cs/system design/concepts/soild.md" -> soild_md
      [] file = "docs/cs/languages/java/String, StringBuffer and StringBuilder.md"
           -> String_StringBuffer_and_StringBuilder_md
      [] file = "unnamed/part_000" -> part_000
      [] file = "unnamed/part_001" -> part_001
      [] file = "unnamed/part_002" -> part_002

\* The fields between two lines, as an object (key, string value).
FieldsBetween(lines, from, to) ==
    LET idx == {i \in from + 1..to - 1 : lines[i].kind = "field"}
        nth[k \in 0..Cardinality(idx)] ==
            IF k = 0 THEN <<>>
            ELSE LET i == CHOOSE i \in idx :
                              Cardinality({j \in idx : j < i}) = k - 1
                 IN  Append(nth[k - 1], <<lines[i].key, S(lines[i].value)>>)
    IN  O(nth[Cardinality(idx)])

\* The line that closes the block a fence opens: the next fence.
ClosingFence(lines, open) ==
    LET later == {j \in open + 1..Len(lines) : lines[j].kind = "fence"}
    IN  IF later = {} THEN 0 ELSE CHOOSE j \in later : \A k \in later : j <= k

\* The front-matter of a file: the block opened by a fence on its first
\* line and closed by the next fence; undefined when the file does not
\* start with a fence.
FrontMatter(doc) ==
    IF /\ Len(doc.lines) > 0
       /\ doc.lines[1].kind = "fence"
       /\ doc.lines[1].ln = 1
       /\ ClosingFence(doc.lines, 1) # 0
    THEN FieldsBetween(doc.lines, 1, ClosingFence(doc.lines, 1))
    ELSE Undefined

\* Every fenced block of a file that declares an id or a title, wherever
\* it stands: [ln, fields], in file order.
MetaBlocks(doc) ==
    LET opens == {i \in 1..Len(doc.lines) :
                    /\ doc.lines[i].kind = "fence"
                    /\ ClosingFence(doc.lines, i) # 0
                    /\ \E j \in i + 1..ClosingFence(doc.lines, i) - 1 :
                         /\ doc.lines[j].kind = "field"
                         /\ doc.lines[j].key \in {"id", "title"}}
        nth[k \in 0..Cardinality(opens)] ==
            IF k = 0 THEN <<>>
            ELSE LET i == CHOOSE i \in opens :
                              Cardinality({j \in opens : j < i}) = k - 1
                 IN  Append(nth[k - 1],
                            [ln |-> doc.lines[i].ln,
                             fields |-> FieldsBetween(doc.lines, i,
                                            ClosingFence(doc.lines, i))])
    IN  nth[Cardinality(opens)]

\* The identifier a document is referred to by: its directory below docs/
\* and its front-matter id, or its file name when it declares no id.
LocalId(doc) ==
    IF FrontMatter(doc).t = "object" /\ Has(FrontMatter(doc), "id")
    THEN Get(FrontMatter(doc), "id").v
    ELSE doc.name

EffectiveId(doc) ==
    IF doc.dir = "" THEN LocalId(doc) ELSE doc.dir \o "/" \o LocalId(doc)

\* What a build keeps of a file it has read.
ReadDocument(doc) ==
    [id |-> EffectiveId(doc),
     frontMatter |-> FrontMatter(doc),
     blocks |-> MetaBlocks(doc),
     links |-> doc.links]

\* ----------------------------------------------------------------------
\* The build: an environment, one configuration file and one sidebars file
\* of the repository, and the modules and documents evaluated so far.
\* ConfigFiles are the files that declare a site configuration.
ConfigFiles == {"docusaurus.config.ts", "unnamed/part_004", "unnamed/part_005"}
SidebarFiles == {"sidebars.ts", "unnamed/part_003"}

VARIABLES
    NODE_ENV,      \* process.env.NODE_ENV of the build
    year,          \* new Date().getFullYear() of the build
    configFile,    \* the configuration file of the checkout
    sidebarsFile,  \* the sidebars file of the checkout
    modules,       \* the modules evaluated so far (the module cache)
    linksModule,   \* the default export of links.ts, once evaluated
    siteConfig,    \* the default export of the configuration, once evaluated
    navigation,    \* the default export of the sidebars file, once evaluated
    corpus,        \* file |-> what was read of it, once the corpus is read
    readLog,       \* the descriptors read so far, in the order of the reads
    status,        \* the outcome of the build: running, completed or failed
    warnings       \* the broken references the build has warned about

vars ==
    <<NODE_ENV, year, configFile, sidebarsFile, modules, linksModule,
      siteConfig, navigation, corpus, readLog, status, warnings>>

\* An object literal with the value of one key replaced, with one key
\* left out, and with one more entry written at its end.
SetKey(o, k, val) ==
    O([i \in 1..Len(o.v) |-> IF o.v[i][1] = k THEN <<k, val>> ELSE o.v[i]])
DropKey(o, k) == O(SelectSeq(o.v, LAMBDA e : e[1] # k))
AppendEntry(o, k, val) == O(Append(o.v, <<k, val>>))

\* The declared configurations with onBrokenLinks: 'throw' in
\* docusaurus.config.ts.
DeclaredConfig_throwOnBrokenLinks(file, nodeEnvValue, y, lnk) ==
    CASE file = "docusaurus.config.ts" ->
             SetKey(config(nodeEnvValue, y), "onBrokenLinks", S("throw"))
      [] file = "unnamed/part_004" -> config_part_004(lnk)
      [] file = "unnamed/part_005" -> config_part_005(y)

\* The object a configuration file binds to its const config.
DeclaredConfig(file, nodeEnvValue, y, lnk) ==
    CASE file = "docusaurus.config.ts" -> config(nodeEnvValue, y)
      [] file = "unnamed/part_004" -> config_part_004(lnk)
      [] file = "unnamed/part_005" -> config_part_005(y)

\* Whether a configuration file ends with `export default config`:
\* unnamed/part_005 declares its config and exports nothing.
ExportsDefault(file) == file \in {"docusaurus.config.ts", "unnamed/part_004"}

\* docusaurus.config.ts with baseUrl written a second time.
ConfigOf_duplicateKey(file, nodeEnvValue, y, lnk) ==
    IF file = "docusaurus.config.ts"
    THEN AppendEntry(config(nodeEnvValue, y), "baseUrl", S("/"))
    ELSE IF ExportsDefault(file)
         THEN DeclaredConfig(file, nodeEnvValue, y, lnk)
         ELSE Undefined

\* docusaurus.config.ts without its tagline.
ConfigOf_noTagline(file, nodeEnvValue, y, lnk) ==
    IF file = "docusaurus.config.ts"
    THEN DropKey(config(nodeEnvValue, y), "tagline")
    ELSE IF ExportsDefault(file)
         THEN DeclaredConfig(file, nodeEnvValue, y, lnk)
         ELSE Undefined

\* unnamed/part_004 with a default locale that its locales do not list.
ConfigOf_unlistedLocale(file, nodeEnvValue, y, lnk) ==
    IF file = "unnamed/part_004"
    THEN SetKey(config_part_004(lnk), "i18n",
                O(<< <<"defaultLocale", S("fr")>>,
                     <<"locales", A(<<S("en")>>)>> >>))
    ELSE IF ExportsDefault(file)
         THEN DeclaredConfig(file, nodeEnvValue, y, lnk)
         ELSE Undefined

\* docusaurus.config.ts exported with onBrokenLinks: 'throw'.
ConfigOf_throwOnBrokenLinks(file, nodeEnvValue, y, lnk) ==
    IF file = "docusaurus.config.ts"
    THEN SetKey(config(nodeEnvValue, y), "onBrokenLinks", S("throw"))
    ELSE IF ExportsDefault(file)
         THEN DeclaredConfig(file, nodeEnvValue, y, lnk)
         ELSE Undefined

\* The default export of a configuration file: its config, or undefined
\* when the file has no export statement.
ConfigOf(file, nodeEnvValue, y, lnk) ==
    IF ExportsDefault(file)
    THEN DeclaredConfig(file, nodeEnvValue, y, lnk)
    ELSE Undefined

\* sidebars.ts with a category nested in the items of Fundamentals.
SidebarsOf_nestedCategory(file) ==
    CASE file = "sidebars.ts" ->
             O(<< <<"tutorialSidebar", A(<<
                 Get(sidebars, "tutorialSidebar").v[1],
                 O(<< <<"type", S("category")>>,
                      <<"label", S("Fundamentals")>>,
                      <<"items", A(<<
                          S("fundamentals/widgets_overview"),
                          O(<< <<"type", S("category")>>,
                               <<"label", S("Keys")>>,
                               <<"items", A(<<S("fundamentals/keys_in_flutter")>>)>> >>)
                        >>)>> >>) >>)>> >>)
      [] file = "unnamed/part_003" -> sidebars_part_003

\* sidebars.ts with 'welcome' listed again among the items of Fundamentals.
SidebarsOf_duplicateItem(file) ==
    CASE file = "sidebars.ts" ->
             O(<< <<"tutorialSidebar", A(<<
                 Get(sidebars, "tutorialSidebar").v[1],
                 O(<< <<"type", S("category")>>,
                      <<"label", S("Fundamentals")>>,
                      <<"items", A(Append(
                          Get(Get(sidebars, "tutorialSidebar").v[2], "items").v,
                          S("welcome")))>> >>) >>)>> >>)
      [] file = "unnamed/part_003" -> sidebars_part_003

\* The value a sidebars file exports.
SidebarsOf(file) ==
    CASE file = "sidebars.ts" -> sidebars
      [] file = "unnamed/part_003" -> sidebars_part_003

\* Whether a configuration file imports ./src/utils/links.
ImportsLinks(file) == file = "unnamed/part_004"

\* ----------------------------------------------------------------------
\* Reading the navigation descriptor.
\* The entries of tutorialSidebar, in source order.
SidebarEntries(nav) == Get(nav, "tutorialSidebar").v

IsDocEntry(e) == e.t = "object" /\ Get(e, "type") = S("doc")
IsCategory(e) == e.t = "object" /\ Get(e, "type") = S("category")

\* The document identifiers an entry refers to, in source order: a string
\* is a document identifier, a doc entry refers to its id, a category to
\* what its items refer to.
RECURSIVE RefsOfEntry(_)
RECURSIVE RefsOfSeq(_)
RefsOfEntry(e) ==
    IF e.t = "string" THEN <<e.v>>
    ELSE IF IsDocEntry(e) /\ Get(e, "id").t = "string" THEN <<Get(e, "id").v>>
    ELSE IF IsCategory(e) /\ Get(e, "items").t = "array"
         THEN RefsOfSeq(Get(e, "items").v)
    ELSE <<>>
RefsOfSeq(es) ==
    IF es = <<>> THEN <<>> ELSE RefsOfEntry(Head(es)) \o RefsOfSeq(Tail(es))

\* Every document identifier of the descriptor, in source order.
DocRefs(nav) == RefsOfSeq(SidebarEntries(nav))

\* A reference resolves when some file read has it as its identifier.
Resolves(ref, docs) == \E f \in DOMAIN docs : docs[f].id = ref

Range(seq) == {seq[i] : i \in 1..Len(seq)}

\* The references of a descriptor that no file read satisfies.
BrokenRefs(nav, docs) == {ref \in Range(DocRefs(nav)) : ~Resolves(ref, docs)}

\* The three descriptors a build reads, and how often one was read.
Components == {"config", "sidebars", "corpus"}
ReadCount(k) == Cardinality({i \in 1..Len(readLog) : readLog[i] = k})

\* ----------------------------------------------------------------------
\* The steps of a build.
Init ==
    /\ NODE_ENV \in NodeEnvValues
    /\ year \in Years
    /\ configFile \in ConfigFiles
    /\ sidebarsFile \in SidebarFiles
    /\ modules = {}
    /\ linksModule = Undefined
    /\ siteConfig = Undefined
    /\ navigation = Undefined
    /\ corpus = <<>>
    /\ readLog = <<>>
    /\ status = "running"
    /\ warnings = {}

\* links.ts is evaluated (once: a module is cached).
EvalLinks ==
    /\ "links" \notin modules
    /\ modules' = modules \cup {"links"}
    /\ linksModule' = links
    /\ UNCHANGED <<NODE_ENV, year, configFile, sidebarsFile, siteConfig,
                   navigation, corpus, readLog, status, warnings>>

\* The configuration file evaluated as if it imported the sidebars module
\* and pushed one more entry onto tutorialSidebar.
EvalConfig_pushesSidebarEntry ==
    /\ "config" \notin modules
    /\ LET lnk == IF ImportsLinks(configFile) THEN links ELSE linksModule
       IN  /\ siteConfig' = ConfigOf(configFile, NODE_ENV, year, lnk)
           /\ linksModule' = lnk
    /\ modules' = modules \cup {"config", "sidebars"} \cup
                    (IF ImportsLinks(configFile) THEN {"links"} ELSE {})
    /\ navigation' =
          O(<< <<"tutorialSidebar",
                 A(Append(Get(SidebarsOf(sidebarsFile), "tutorialSidebar").v,
                          S("intro")))>> >>)
    /\ readLog' = Append(readLog, "config")
    /\ UNCHANGED <<NODE_ENV, year, configFile, sidebarsFile, corpus, status,
                   warnings>>

\* The configuration file is evaluated; its import of links.ts, if any,
\* evaluates that module first.
EvalConfig ==
    /\ "config" \notin modules
    /\ LET lnk == IF ImportsLinks(configFile) THEN links ELSE linksModule
       IN  /\ siteConfig' = ConfigOf(configFile, NODE_ENV, year, lnk)
           /\ linksModule' = lnk
    /\ modules' = modules \cup {"config"} \cup
                    (IF ImportsLinks(configFile) THEN {"links"} ELSE {})
    /\ readLog' = Append(readLog, "config")
    /\ UNCHANGED <<NODE_ENV, year, configFile, sidebarsFile, navigation, corpus,
                   status, warnings>>

\* The sidebars file evaluated again on a second import, as if modules
\* were not cached.
EvalSidebars_uncached ==
    /\ ReadCount("sidebars") < 2
    /\ modules' = modules \cup {"sidebars"}
    /\ navigation' = SidebarsOf(sidebarsFile)
    /\ readLog' = Append(readLog, "sidebars")
    /\ UNCHANGED <<NODE_ENV, year, configFile, sidebarsFile, linksModule,
                   siteConfig, corpus, status, warnings>>

\* The sidebars file is evaluated (once: a module is cached).
EvalSidebars ==
    /\ "sidebars" \notin modules
    /\ modules' = modules \cup {"sidebars"}
    /\ navigation' = SidebarsOf(sidebarsFile)
    /\ readLog' = Append(readLog, "sidebars")
    /\ UNCHANGED <<NODE_ENV, year, configFile, sidebarsFile, linksModule,
                   siteConfig, corpus, status, warnings>>

\* What the content files of the checkout hold.
AuthoredCorpus == [file \in DocFiles |-> ReadDocument(Doc(file))]

\* The content files are read, each once; the read depends on neither
\* of the two descriptors.
ReadCorpus ==
    /\ corpus = <<>>
    /\ corpus' = AuthoredCorpus
    /\ readLog' = Append(readLog, "corpus")
    /\ UNCHANGED <<NODE_ENV, year, configFile, sidebarsFile, modules,
                   linksModule, siteConfig, navigation, status, warnings>>

\* Everything the build reads has been read.
AllRead ==
    /\ {"config", "sidebars"} \subseteq modules
    /\ DOMAIN corpus = DocFiles

\* The build ends, once the three descriptors are read and a configuration
\* object was handed over: a broken reference of the navigation descriptor
\* fails the build when onBrokenLinks is 'throw', and is warned about
\* otherwise.
FinishBuild ==
    /\ AllRead
    /\ siteConfig.t = "object"
    /\ status = "running"
    /\ LET broken == BrokenRefs(navigation, corpus)
       IN  IF Get(siteConfig, "onBrokenLinks") = S("throw") /\ broken # {}
           THEN status' = "failed" /\ warnings' = {}
           ELSE status' = "completed" /\ warnings' = broken
    /\ UNCHANGED <<NODE_ENV, year, configFile, sidebarsFile, modules,
                   linksModule, siteConfig, navigation, corpus, readLog>>

Next ==
    \/ EvalLinks
    \/ EvalConfig
    \/ EvalSidebars
    \/ ReadCorpus
    \/ FinishBuild

Spec == Init /\ [][Next]_vars

\* A build goes on until it has ended: no read and no end of the build
\* is put off for ever.
LiveSpec ==
    /\ Spec
    /\ WF_vars(EvalConfig)
    /\ WF_vars(EvalSidebars)
    /\ WF_vars(ReadCorpus)
    /\ WF_vars(FinishBuild)

\* ======================================================================
\* Properties.
ConfigLoaded == "config" \in modules
\* The configuration module is evaluated and has handed over an object.
ConfigExported == ConfigLoaded /\ siteConfig.t = "object"
\* The object the evaluated configuration file declares.
DeclaredBuildConfig == DeclaredConfig(configFile, NODE_ENV, year, linksModule)
SidebarsLoaded == "sidebars" \in modules
CorpusRead == DOMAIN corpus = DocFiles


\* C1: every document identifier of the navigation descriptor (the doc
\* entry 'welcome' and every item of every category) is the effective id
\* of some content file of the corpus.
C1_NavigationResolves ==
    (SidebarsLoaded /\ CorpusRead) =>
        \A ref \in Range(DocRefs(navigation)) : Resolves(ref, corpus)

\* C2: every front-matter block of the corpus declares both id and title,
\* and no two content files declare the same id or the same title.  The
\* blocks are the front-matter at the head of a file and every fenced
\* block further down that declares an id or a title.
C2_FrontMatterRequiredAndUnique ==
    CorpusRead =>
        /\ \A f \in DOMAIN corpus :
              /\ corpus[f].frontMatter.t = "object" =>
                    /\ Has(corpus[f].frontMatter, "id")
                    /\ Has(corpus[f].frontMatter, "title")
              /\ \A i \in 1..Len(corpus[f].blocks) :
                    /\ Has(corpus[f].blocks[i].fields, "id")
                    /\ Has(corpus[f].blocks[i].fields, "title")
                    /\ Get(corpus[f].blocks[i].fields, "id").v # ""
                    /\ Get(corpus[f].blocks[i].fields, "title").v # ""
        /\ \A f, g \in DOMAIN corpus :
              f # g =>
                 \A i \in 1..Len(corpus[f].blocks), j \in 1..Len(corpus[g].blocks) :
                    /\ Get(corpus[f].blocks[i].fields, "id")
                         # Get(corpus[g].blocks[j].fields, "id")
                    /\ Get(corpus[f].blocks[i].fields, "title")
                         # Get(corpus[g].blocks[j].fields, "title")

\* The corpus is read and holds two files with front-matter at their head
\* and a file with a block further down.
C2_Witness ==
    /\ CorpusRead
    /\ Cardinality({f \in DOMAIN corpus : corpus[f].frontMatter.t = "object"}) >= 2
    /\ \E f \in DOMAIN corpus :
          corpus[f].frontMatter.t # "object" /\ Len(corpus[f].blocks) > 0

\* C3, as stated: in every configuration object of the repository both
\* onBrokenLinks and onBrokenMarkdownLinks are 'warn' and neither is
\* 'throw'.
C3_EveryConfigWarns ==
    ConfigLoaded =>
        /\ Get(DeclaredBuildConfig, "onBrokenLinks") = S("warn")
        /\ Get(DeclaredBuildConfig, "onBrokenMarkdownLinks") = S("warn")

\* C3, amended: docusaurus.config.ts and the configuration that imports
\* the links module set both onBrokenLinks and onBrokenMarkdownLinks to
\* 'warn', and these are the configurations a file exports; the GitHub
\* Pages configuration (part_005) sets onBrokenLinks to 'throw', does not
\* set onBrokenMarkdownLinks, and is declared without being exported.
C3_WarnExceptGitHubPages ==
    ConfigLoaded =>
        IF configFile = "unnamed/part_005"
        THEN /\ Get(DeclaredBuildConfig, "onBrokenLinks") = S("throw")
             /\ ~Has(DeclaredBuildConfig, "onBrokenMarkdownLinks")
             /\ siteConfig = Undefined
        ELSE /\ Get(DeclaredBuildConfig, "onBrokenLinks") = S("warn")
             /\ Get(DeclaredBuildConfig, "onBrokenMarkdownLinks") = S("warn")
             /\ siteConfig = DeclaredBuildConfig

\* docusaurus.config.ts has been evaluated and warns on broken links.
C3_Witness ==
    /\ ConfigLoaded
    /\ configFile = "docusaurus.config.ts"
    /\ Get(siteConfig, "onBrokenLinks") = S("warn")
    /\ Get(siteConfig, "onBrokenMarkdownLinks") = S("warn")

\* The references the descriptor of the checkout leaves unsatisfied,
\* whatever the order of the reads.
AuthoredBrokenRefs == BrokenRefs(SidebarsOf(sidebarsFile), AuthoredCorpus)

NoDuplicateKeys(o) ==
    \A i, j \in 1..Len(o.v) : i # j => o.v[i][1] # o.v[j][1]

\* C5: the configuration is well-formed structured data without duplicate
\* keys: in the config object a file exports and in every object nested
\* in it, at any depth, every key is written once.
C5_NoDuplicateKeys ==
    ConfigExported =>
        /\ \A i \in 1..Len(ObjectsIn(siteConfig)) :
              NoDuplicateKeys(ObjectsIn(siteConfig)[i])

\* A configuration is evaluated, with its nested objects: i18n, the preset
\* options, themeConfig, navbar, prism and the link items among them.
C5_Witness ==
    /\ ConfigExported
    /\ Len(ObjectsIn(siteConfig)) >= 15
    /\ Has(Get(siteConfig, "themeConfig"), "navbar")

\* C6: once the sidebars module is evaluated, no step of the build changes
\* its value, and the value is the one written in the sidebars file.
C6_NavigationNeverMutated ==
    [][/\ SidebarsLoaded => navigation' = navigation
       /\ SidebarsLoaded' => navigation' = SidebarsOf(sidebarsFile)]_vars

\* The sidebars were evaluated and the build went on to read the corpus.
C6_Witness ==
    /\ SidebarsLoaded
    /\ CorpusRead
    /\ Len(SidebarEntries(navigation)) >= 2

\* C7: the corpus, the navigation descriptor and the configuration are
\* each read at most once, and exactly once by the time all are read;
\* what was read, and the outcome of the build, are the same whatever the
\* order of the three reads.
C7_ReadOnceInAnyOrder ==
    /\ \A k \in Components : ReadCount(k) <= 1
    /\ ReadCount("config") = 1 <=> ConfigLoaded
    /\ ReadCount("sidebars") = 1 <=> SidebarsLoaded
    /\ ReadCount("corpus") = 1 <=> CorpusRead
    /\ AllRead =>
          /\ \A k \in Components : ReadCount(k) = 1
          /\ siteConfig = ConfigOf(configFile, NODE_ENV, year, links)
          /\ navigation = SidebarsOf(sidebarsFile)
          /\ corpus = AuthoredCorpus
    /\ status # "running" =>
          /\ AllRead
          /\ status = "completed"
          /\ warnings = AuthoredBrokenRefs

\* A build that read the corpus first and the configuration last has
\* completed.
C7_Witness ==
    /\ status = "completed"
    /\ readLog = <<"corpus", "sidebars", "config">>

\* The kinds of link target.
IsAnchor(l) == l.prefix = "#"
IsExternal(l) == l.prefix \in {"http://", "https://"}
\* A target that names a document: a path with no extension (a document
\* identifier) or with a Markdown extension.
IsDocTarget(l) ==
    /\ ~IsAnchor(l)
    /\ ~IsExternal(l)
    /\ l.ext \in {"", "md", "mdx"}

\* The links of file f that need another file to exist, with only the
\* files of `present` in the corpus, and that find none.
BrokenDocLinks(f, present) ==
    {i \in 1..Len(corpus[f].links) :
        /\ IsDocTarget(corpus[f].links[i])
        /\ ~\E g \in present \ {f} :
              corpus[f].links[i].rest \in {corpus[g].id, "/docs/" \o corpus[g].id}}

\* C8: the content files are independent: no link of a content file names
\* another document (every Markdown link is a same-page anchor or an
\* external URL), so with any one file removed no link of another file is
\* broken.
C8_IndependentDocuments ==
    CorpusRead =>
        /\ \A f \in DOMAIN corpus :
              \A i \in 1..Len(corpus[f].links) :
                 /\ ~IsDocTarget(corpus[f].links[i])
                 /\ corpus[f].links[i].kind = "inline" =>
                       IsAnchor(corpus[f].links[i]) \/ IsExternal(corpus[f].links[i])
        /\ \A g \in DOMAIN corpus :
              \A f \in DOMAIN corpus \ {g} :
                 BrokenDocLinks(f, DOMAIN corpus \ {g}) = {}

\* The corpus is read and holds a file with same-page anchors and with
\* external URLs.
C8_Witness ==
    /\ CorpusRead
    /\ \E f \in DOMAIN corpus :
          /\ \E i \in 1..Len(corpus[f].links) : IsAnchor(corpus[f].links[i])
          /\ \E i \in 1..Len(corpus[f].links) : IsExternal(corpus[f].links[i])

\* A string setting that is present and not empty.
NonEmptyString(val) == val.t = "string" /\ val.v # ""
NonEmptyArray(val) == val.t = "array" /\ Len(val.v) > 0

\* The settings every configuration of the repository defines.
CommonSettings(cfg) ==
    /\ \A k \in {"title", "tagline", "url", "baseUrl", "organizationName",
                 "projectName"} : NonEmptyString(Get(cfg, k))
    /\ Get(Get(Get(cfg, "themeConfig"), "prism"), "theme").t = "external"
    /\ Get(Get(Get(cfg, "themeConfig"), "prism"), "darkTheme").t = "external"
    /\ NonEmptyArray(Get(Get(Get(cfg, "themeConfig"), "navbar"), "items"))

HasFooterLinks(cfg) ==
    /\ Has(Get(cfg, "themeConfig"), "footer")
    /\ NonEmptyArray(Get(Get(Get(cfg, "themeConfig"), "footer"), "links"))

HasMetadata(cfg) ==
    /\ Has(Get(cfg, "themeConfig"), "metadata")
    /\ NonEmptyArray(Get(Get(cfg, "themeConfig"), "metadata"))

\* C9, as stated: the configuration defines title, tagline, url, baseUrl,
\* organizationName, projectName, the prism theme and darkTheme, a navbar
\* link list, a footer link list and a metadata tag list, none empty.
C9_EverySettingDefined ==
    ConfigExported =>
        /\ CommonSettings(siteConfig)
        /\ HasFooterLinks(siteConfig)
        /\ HasMetadata(siteConfig)

\* C9, amended: every exported configuration defines title, tagline, url,
\* baseUrl, organizationName, projectName, the prism theme and darkTheme,
\* a navbar link list and a metadata tag list, none empty; the footer link
\* list is defined by docusaurus.config.ts and not by the configuration
\* that imports the links module (part_004).
C9_SettingsPerConfig ==
    ConfigExported =>
        /\ CommonSettings(siteConfig)
        /\ HasMetadata(siteConfig)
        /\ HasFooterLinks(siteConfig) <=> configFile = "docusaurus.config.ts"

\* docusaurus.config.ts is evaluated and defines every listed setting.
C9_Witness ==
    /\ ConfigExported
    /\ configFile = "docusaurus.config.ts"
    /\ CommonSettings(siteConfig)
    /\ HasFooterLinks(siteConfig)
    /\ HasMetadata(siteConfig)

\* A well-formed doc entry and a well-formed category.
WellFormedDoc(e) ==
    /\ NonEmptyString(Get(e, "id"))
    /\ NonEmptyString(Get(e, "label"))
WellFormedCategory(e) ==
    /\ NonEmptyString(Get(e, "label"))
    /\ NonEmptyArray(Get(e, "items"))
    /\ \A i \in 1..Len(Get(e, "items").v) : Get(e, "items").v[i].t = "string"

\* C10: every element of tutorialSidebar is a doc entry with an id and a
\* label, or a category with a label and a non-empty list of items that
\* are all strings; the documents a category refers to are its items, in
\* the order written.
C10_NavigationShape ==
    SidebarsLoaded =>
        /\ Get(navigation, "tutorialSidebar").t = "array"
        /\ \A i \in 1..Len(SidebarEntries(navigation)) :
              LET e == SidebarEntries(navigation)[i]
              IN  /\ e.t = "object"
                  /\ \/ IsDocEntry(e) /\ WellFormedDoc(e)
                     \/ IsCategory(e) /\ WellFormedCategory(e)
                  /\ IsCategory(e) =>
                        RefsOfEntry(e) =
                           [k \in 1..Len(Get(e, "items").v) |-> Get(e, "items").v[k].v]

\* The sidebars are evaluated and hold a doc entry and a category of
\* several items.
C10_Witness ==
    /\ SidebarsLoaded
    /\ \E i \in 1..Len(SidebarEntries(navigation)) :
          IsDocEntry(SidebarEntries(navigation)[i])
    /\ \E i \in 1..Len(SidebarEntries(navigation)) :
          /\ IsCategory(SidebarEntries(navigation)[i])
          /\ Len(Get(SidebarEntries(navigation)[i], "items").v) >= 2

\* C11: in docusaurus.config.ts baseUrl is '/' exactly when NODE_ENV is
\* 'development' and '/flutter-interview-prep/' for every other value,
\* unset included; no other field of the configuration depends on
\* NODE_ENV.
C11_BaseUrlByEnvironment ==
    (ConfigLoaded /\ configFile = "docusaurus.config.ts") =>
        /\ Get(siteConfig, "baseUrl") = S("/") <=> NODE_ENV = "development"
        /\ NODE_ENV # "development" =>
              Get(siteConfig, "baseUrl") = S("/flutter-interview-prep/")
        /\ \A e \in NodeEnvValues :
              DropKey(siteConfig, "baseUrl") = DropKey(config(e, year), "baseUrl")

\* docusaurus.config.ts is evaluated with NODE_ENV unset.
C11_Witness ==
    /\ ConfigLoaded
    /\ configFile = "docusaurus.config.ts"
    /\ NODE_ENV = Unset
    /\ Get(siteConfig, "baseUrl") = S("/flutter-interview-prep/")

\* The internal links of a configuration: the `to` targets of the items of
\* the footer link groups, in source order.
RECURSIVE ToTargetsOfSeq(_)
ToTargetsOfSeq(vals) ==
    IF vals = <<>> THEN <<>>
    ELSE (IF Head(vals).t = "object" /\ Has(Head(vals), "to")
          THEN <<Get(Head(vals), "to").v>> ELSE <<>>)
         \o (IF Head(vals).t = "object" /\ Get(Head(vals), "items").t = "array"
             THEN ToTargetsOfSeq(Get(Head(vals), "items").v) ELSE <<>>)
         \o ToTargetsOfSeq(Tail(vals))

InternalLinks(cfg) ==
    IF HasFooterLinks(cfg)
    THEN ToTargetsOfSeq(Get(Get(Get(cfg, "themeConfig"), "footer"), "links").v)
    ELSE <<>>

\* A target /docs/<id> resolves when <id> is the identifier of a file read.
DocsPrefix == "/docs/"
RouteResolves(target, docs) ==
    /\ Len(target) > Len(DocsPrefix)
    /\ SubSeq(target, 1, Len(DocsPrefix)) = DocsPrefix
    /\ Resolves(SubSeq(target, Len(DocsPrefix) + 1, Len(target)), docs)

\* C12: every internal link of the configuration resolves to a document
\* (the footer link /docs/intro to the file whose id is 'intro') and, in
\* the same corpus, the sidebar's doc entry 'welcome' resolves as well.
C12_FooterAndSidebarResolve ==
    (AllRead /\ ConfigExported /\ InternalLinks(siteConfig) # <<>>) =>
        /\ \A i \in 1..Len(InternalLinks(siteConfig)) :
              RouteResolves(InternalLinks(siteConfig)[i], corpus)
        /\ \A i \in 1..Len(SidebarEntries(navigation)) :
              IsDocEntry(SidebarEntries(navigation)[i]) =>
                 Resolves(Get(SidebarEntries(navigation)[i], "id").v, corpus)

\* The labels of the categories of a descriptor, in source order.
CategoryLabels(nav) ==
    LET cats == SelectSeq(SidebarEntries(nav), IsCategory)
    IN  [i \in 1..Len(cats) |-> Get(cats[i], "label")]

\* C13: in the navigation descriptor the category labels are pairwise
\* distinct and no document identifier is referred to twice, whether in
\* one category, in two categories, or as the doc entry and as an item.
C13_NoDuplicateLabelsOrRefs ==
    SidebarsLoaded =>
        LET labels == CategoryLabels(navigation)
            refs == DocRefs(navigation)
        IN  /\ \A i, j \in 1..Len(labels) : i # j => labels[i] # labels[j]
            /\ \A i, j \in 1..Len(refs) : i # j => refs[i] # refs[j]

\* The descriptor with nine categories is evaluated: 36 references.
C13_Witness ==
    /\ SidebarsLoaded
    /\ Len(CategoryLabels(navigation)) >= 9
    /\ Len(DocRefs(navigation)) >= 36

\* C14: a content file declares at most one front-matter block, and the
\* block is the first thing in the file: no file holds a second block
\* that declares id or title, and no such block starts after body text.
C14_SingleLeadingFrontMatter ==
    CorpusRead =>
        \A f \in DOMAIN corpus :
           /\ Len(corpus[f].blocks) <= 1
           /\ \A i \in 1..Len(corpus[f].blocks) : corpus[f].blocks[i].ln = 1

\* Tests on the characters of a string.
StartsWith(str, prefix) ==
    Len(str) >= Len(prefix) /\ SubSeq(str, 1, Len(prefix)) = prefix
EndsWith(str, suffix) ==
    /\ Len(str) >= Len(suffix)
    /\ SubSeq(str, Len(str) - Len(suffix) + 1, Len(str)) = suffix
CharAt(str, i) == SubSeq(str, i, i)

\* An absolute https origin: https:// and a host, with no path, query or
\* fragment after it and no slash at its end.
HttpsScheme == "https://"
IsHttpsOrigin(str) ==
    /\ StartsWith(str, HttpsScheme)
    /\ Len(str) > Len(HttpsScheme)
    /\ \A i \in Len(HttpsScheme) + 1..Len(str) :
          CharAt(str, i) \notin {"/", "?", "#", " "}

WellFormedAddress(cfg) ==
    /\ Get(cfg, "url").t = "string"
    /\ IsHttpsOrigin(Get(cfg, "url").v)
    /\ Get(cfg, "baseUrl").t = "string"
    /\ StartsWith(Get(cfg, "baseUrl").v, "/")
    /\ EndsWith(Get(cfg, "baseUrl").v, "/")

\* C15: the site address is well-formed in every environment: url is an
\* absolute https origin with no path and no trailing slash, and baseUrl
\* begins and ends with '/', whatever the value of NODE_ENV.
C15_WellFormedAddress ==
    ConfigExported =>
        /\ WellFormedAddress(siteConfig)
        /\ \A e \in NodeEnvValues :
              WellFormedAddress(ConfigOf(configFile, e, year, linksModule))

\* docusaurus.config.ts is evaluated in development, where baseUrl is '/'.
C15_Witness ==
    /\ ConfigLoaded
    /\ configFile = "docusaurus.config.ts"
    /\ NODE_ENV = "development"
    /\ Get(siteConfig, "baseUrl") = S("/")
    /\ Get(siteConfig, "url") = S("https://narayann.dev")

\* The elements of an array literal.
Elements(arr) == {arr.v[i] : i \in 1..Len(arr.v)}

\* C16: i18n.defaultLocale is a member of i18n.locales in every site
\* configuration object.
C16_DefaultLocaleListed ==
    ConfigExported =>
        /\ Has(siteConfig, "i18n")
        /\ Has(Get(siteConfig, "i18n"), "defaultLocale")
        /\ Has(Get(siteConfig, "i18n"), "locales")
        /\ Get(Get(siteConfig, "i18n"), "locales").t = "array"
        /\ Get(Get(siteConfig, "i18n"), "defaultLocale")
              \in Elements(Get(Get(siteConfig, "i18n"), "locales"))

\* The configuration that reads the links module is evaluated; its default
\* locale 'en' is the one locale it lists.
C16_Witness ==
    /\ ConfigLoaded
    /\ configFile = "unnamed/part_004"
    /\ Get(Get(siteConfig, "i18n"), "defaultLocale") = S("en")
    /\ Elements(Get(Get(siteConfig, "i18n"), "locales")) = {S("en")}

\* A configuration without the copyright string of its footer.
WithoutCopyright(cfg) ==
    IF Has(cfg, "themeConfig") /\ Has(Get(cfg, "themeConfig"), "footer")
    THEN SetKey(cfg, "themeConfig",
                SetKey(Get(cfg, "themeConfig"), "footer",
                       DropKey(Get(Get(cfg, "themeConfig"), "footer"),
                               "copyright")))
    ELSE cfg

\* The copyright string of a configuration's footer.
Copyright(cfg) == Get(Get(Get(cfg, "themeConfig"), "footer"), "copyright")

\* One string occurs inside another.
Contains(str, part) ==
    \E i \in 1..Len(str) - Len(part) + 1 :
        SubSeq(str, i, i + Len(part) - 1) = part

\* C17: evaluating the site configuration is deterministic in its inputs:
\* the exported object is the one its file yields for NODE_ENV and the
\* calendar year, a build in another year yields the same object but for
\* the footer's copyright string, and that string contains the four-digit
\* year of the build.
C17_DeterministicInEnvAndYear ==
    (ConfigLoaded /\ configFile = "docusaurus.config.ts") =>
        /\ siteConfig = config(NODE_ENV, year)
        /\ \A y \in Years :
              WithoutCopyright(config(NODE_ENV, y)) = WithoutCopyright(siteConfig)
        /\ Copyright(siteConfig).t = "string"
        /\ Len(ToString(year)) = 4
        /\ Contains(Copyright(siteConfig).v, ToString(year))

\* docusaurus.config.ts is evaluated, and a build in another year would
\* have given another copyright string.
C17_Witness ==
    /\ ConfigLoaded
    /\ configFile = "docusaurus.config.ts"
    /\ Copyright(siteConfig) =
          Concat(Concat(S("Copyright © "), S(ToString(year))),
                 S(" Narayann. Built with Docusaurus."))
    /\ \E y \in Years : Copyright(config(NODE_ENV, y)) # Copyright(siteConfig)

\* The navbar items of a configuration that carry a label, and the
\* metadata entries that carry a property.
NavbarItems(cfg, label) ==
    {item \in Elements(Get(Get(Get(cfg, "themeConfig"), "navbar"), "items")) :
        Has(item, "label") /\ Get(item, "label") = S(label)}
MetadataEntries(cfg, property) ==
    {entry \in Elements(Get(Get(cfg, "themeConfig"), "metadata")) :
        Has(entry, "property") /\ Get(entry, "property") = S(property)}

LinkNames ==
    {"linkedinLink", "githubLink", "gmailLink", "twitterLink",
     "stackoverflowLink", "portfolioLink", "hostedCoreURL"}

\* C18: in the configuration that takes its addresses from the links
\* module every derived address agrees with its source: url and the og:url
\* metadata content equal links.hostedCoreURL, the navbar GitHub href is
\* links.githubLink followed by /flutter-interview-prep, the navbar Contact
\* href is links.gmailLink, and the exported links object maps each of its
\* seven keys to the constant of the same name.
C18_AddressesAgreeWithLinks ==
    (ConfigLoaded /\ configFile = "unnamed/part_004") =>
        /\ "links" \in modules
        /\ Get(siteConfig, "url") = Get(linksModule, "hostedCoreURL")
        /\ Cardinality(MetadataEntries(siteConfig, "og:url")) = 1
        /\ \A entry \in MetadataEntries(siteConfig, "og:url") :
              Get(entry, "content") = Get(linksModule, "hostedCoreURL")
        /\ Cardinality(NavbarItems(siteConfig, "GitHub")) = 1
        /\ \A item \in NavbarItems(siteConfig, "GitHub") :
              Get(item, "href") =
                 Concat(Get(linksModule, "githubLink"), S("/flutter-interview-prep"))
        /\ Cardinality(NavbarItems(siteConfig, "Contact")) = 1
        /\ \A item \in NavbarItems(siteConfig, "Contact") :
              Get(item, "href") = Get(linksModule, "gmailLink")
        /\ {linksModule.v[i][1] : i \in 1..Len(linksModule.v)} = LinkNames
        /\ Len(linksModule.v) = Cardinality(LinkNames)
        /\ Get(linksModule, "linkedinLink") = linkedinLink
        /\ Get(linksModule, "githubLink") = githubLink
        /\ Get(linksModule, "gmailLink") = gmailLink
        /\ Get(linksModule, "twitterLink") = twitterLink
        /\ Get(linksModule, "stackoverflowLink") = stackoverflowLink
        /\ Get(linksModule, "portfolioLink") = portfolioLink
        /\ Get(linksModule, "hostedCoreURL") = hostedCoreURL

\* The configuration that imports the links module is evaluated, and its
\* GitHub href is the repository's address.
C18_Witness ==
    /\ ConfigLoaded
    /\ configFile = "unnamed/part_004"
    /\ "links" \in modules
    /\ Get(siteConfig, "url") = S("https://flutterprep.narayann.dev")
    /\ \E item \in NavbarItems(siteConfig, "GitHub") :
          Get(item, "href") = S("https://github.com/narayann7/flutter-interview-prep")
    /\ \E item \in NavbarItems(siteConfig, "Contact") :
          Get(item, "href") = S("mailto:social@narayann.dev")

====
